---- MODULE Spec2Model ----
(***************************************************************************)
(* Transcript-processing core of the chat view (ui/src/ui/views/chat.ts    *)
(* and ui/src/ui/chat/message-normalizer.ts): key derivation, the item     *)
(* builder, and role grouping, as a state machine over the props the view  *)
(* is rendered with.                                                       *)
(***************************************************************************)
EXTENDS Integers, Sequences, FiniteSets, TLC

(***************************************************************************)
(* JavaScript values.  A raw message is `unknown`: every field is one of   *)
(* undefined, null, a string, a number or an array, and the code tests the *)
(* type before it uses the value.                                          *)
(***************************************************************************)
Undefined == [undef |-> TRUE]
Null == [null |-> TRUE]
Str(s) == [str |-> s]
Num(n) == [num |-> n]
Arr(a) == [arr |-> a]

IsStr(v) == DOMAIN v = {"str"}
IsNum(v) == DOMAIN v = {"num"}
IsArr(v) == DOMAIN v = {"arr"}
IsNullish(v) == v = Null \/ v = Undefined

\* a ?? b
Coalesce(a, b) == IF IsNullish(a) THEN b ELSE a

(***************************************************************************)
(* Strings: characters and UTF-16 code units.                              *)
(***************************************************************************)
\* code units 32..95 and 97..126 (the backquote, 96, is not used)
AsciiLow == " !\"#$%&'()*+,-./0123456789:;<=>?@ABCDEFGHIJKLMNOPQRSTUVWXYZ[\\]^_"

AsciiHigh == "abcdefghijklmnopqrstuvwxyz{|}~"

CharTable == [i \in 32..126 |->
  IF i < 96 THEN SubSeq(AsciiLow, i - 31, i - 31)
  ELSE IF i = 96 THEN "" ELSE SubSeq(AsciiHigh, i - 96, i - 96)]

CharAt(s, i) == SubSeq(s, i, i)

CodeTable ==
  [c \in {CharTable[i] : i \in (32..126) \ {96}} \cup {"\n", "\t"} |->
     IF c = "\n" THEN 10
     ELSE IF c = "\t" THEN 9
     ELSE CHOOSE i \in 32..126 : CharTable[i] = c]

\* String.prototype.charCodeAt for the characters the model uses
charCode(c) == CodeTable[c]

IsWhitespace(c) == c \in {" ", "\t", "\n", "\r"}

\* s.trim().length > 0
RECURSIVE HasNonWhitespace(_)
HasNonWhitespace(s) ==
  IF Len(s) = 0 THEN FALSE
  ELSE IF ~IsWhitespace(CharAt(s, 1)) THEN TRUE
  ELSE HasNonWhitespace(SubSeq(s, 2, Len(s)))

(***************************************************************************)
(* fnv1a: 32-bit FNV-1a over UTF-16 code units, rendered in base 36.  The  *)
(* 32-bit word is kept as two 16-bit halves <<hi, lo>> so that no          *)
(* intermediate product leaves the range of 32-bit integers.              *)
(***************************************************************************)
Half == 65536

RECURSIVE Xor16(_, _, _)
Xor16(a, b, bits) ==
  IF bits = 0 THEN 0
  ELSE (IF (a % 2) # (b % 2) THEN 1 ELSE 0) + 2 * Xor16(a \div 2, b \div 2, bits - 1)

\* the xor of two 4-bit numbers, tabulated
XorNibble == [a \in 0..15 |-> [b \in 0..15 |-> Xor16(a, b, 4)]]

\* the xor of two 16-bit numbers, four bits at a time
XorWord(a, b) ==
  XorNibble[a % 16][b % 16]
    + 16 * XorNibble[(a \div 16) % 16][(b \div 16) % 16]
    + 256 * XorNibble[(a \div 256) % 16][(b \div 256) % 16]
    + 4096 * XorNibble[a \div 4096][b \div 4096]

\* hash ^= code  (code < 2^16 touches the low half only)
FnvXor(h, code) == <<h[1], XorWord(h[2], code)>>

\* Math.imul(hash, 0x01000193), 0x01000193 = 2^24 + 403
FnvMul(h) ==
  LET lo403 == h[2] * 403
      lo == lo403 % Half
      carry == lo403 \div Half
      hi == (h[1] * 403 + carry + (h[2] % 256) * 256) % Half
  IN <<hi, lo>>

\* the loop over the characters lo..hi in order, split in halves so that the
\* evaluation depth grows with the logarithm of the length
RECURSIVE FnvLoop(_, _, _, _)
FnvLoop(h, input, lo, hi) ==
  IF h[1] >= 0 /\ lo > hi THEN h
  ELSE IF lo = hi THEN FnvMul(FnvXor(h, charCode(CharAt(input, lo))))
  ELSE LET mid == (lo + hi) \div 2
       IN FnvLoop(FnvLoop(h, input, lo, mid), input, mid + 1, hi)

Digits36 == "0123456789abcdefghijklmnopqrstuvwxyz"

\* (hash >>> 0).toString(36)
RECURSIVE ToBase36(_)
ToBase36(h) ==
  LET qhi == h[1] \div 36
      rest == (h[1] % 36) * Half + h[2]
      qlo == rest \div 36
      d == rest % 36
      digit == CharAt(Digits36, d + 1)
  IN IF qhi = 0 /\ qlo = 0 THEN digit ELSE ToBase36(<<qhi, qlo>>) \o digit

\* 0x811c9dc5 = 0x811c * 2^16 + 0x9dc5
fnv1a(input) == ToBase36(FnvLoop(<<33052, 40389>>, input, 1, Len(input)))

(***************************************************************************)
(* More string helpers: toLowerCase, join, JSON string escaping.           *)
(***************************************************************************)
LowerChar(c) ==
  IF c \in {"\n", "\t", "\r"} THEN c
  ELSE LET code == charCode(c)
       IN IF code >= 65 /\ code <= 90 THEN CharTable[code + 32] ELSE c

\* String.prototype.toLowerCase
RECURSIVE toLowerCase(_)
toLowerCase(s) ==
  IF Len(s) = 0 THEN ""
  ELSE LowerChar(CharAt(s, 1)) \o toLowerCase(SubSeq(s, 2, Len(s)))

\* Array.prototype.join over a sequence of strings
RECURSIVE Join(_, _)
Join(strs, sep) ==
  IF Len(strs) = 0 THEN ""
  ELSE IF Len(strs) = 1 THEN strs[1]
  ELSE strs[1] \o sep \o Join(Tail(strs), sep)

EscapeChar(c) ==
  IF c = "\"" THEN "\\\""
  ELSE IF c = "\\" THEN "\\\\"
  ELSE IF c = "\n" THEN "\\n"
  ELSE IF c = "\t" THEN "\\t"
  ELSE c

RECURSIVE JsonEscape(_)
JsonEscape(s) ==
  IF Len(s) = 0 THEN ""
  ELSE EscapeChar(CharAt(s, 1)) \o JsonEscape(SubSeq(s, 2, Len(s)))

JsonString(s) == "\"" \o JsonEscape(s) \o "\""

(***************************************************************************)
(* Raw messages and content parts.  A message is a record of the fields    *)
(* the code reads, each a JavaScript value; `cyclic` says that the object  *)
(* holds a reference cycle, which makes JSON.stringify throw.  Obj(json)   *)
(* is a plain object the code never looks into, given by its JSON text.    *)
(***************************************************************************)
Obj(json) == [obj |-> json]
IsObj(v) == DOMAIN v = {"obj"}

\* property order of a message object and of a content part
MsgFields == <<"role", "content", "text", "toolCallId", "tool_call_id",
               "toolName", "tool_name", "id", "messageId", "timestamp">>

PartFields == <<"type", "text", "thinking", "name", "arguments", "args", "content">>

EmptyMsg == [role |-> Undefined, content |-> Undefined, text |-> Undefined,
             toolCallId |-> Undefined, tool_call_id |-> Undefined,
             toolName |-> Undefined, tool_name |-> Undefined,
             id |-> Undefined, messageId |-> Undefined, timestamp |-> Undefined,
             cyclic |-> FALSE]

EmptyPart == [type |-> Undefined, text |-> Undefined, thinking |-> Undefined,
              name |-> Undefined, arguments |-> Undefined, args |-> Undefined,
              content |-> Undefined]

TextPart(s) == [EmptyPart EXCEPT !.type = Str("text"), !.text = Str(s)]

\* JSON.stringify of a value; a property whose value is undefined is left out
RECURSIVE JsonValue(_)
JsonProps(rec, fields) ==
  LET present == SelectSeq(fields, LAMBDA f : rec[f] # Undefined)
      prop(f) == JsonString(f) \o ":" \o JsonValue(rec[f])
  IN "{" \o Join([k \in 1..Len(present) |-> prop(present[k])], ",") \o "}"

JsonValue(v) ==
  IF IsStr(v) THEN JsonString(v.str)
  ELSE IF IsNum(v) THEN ToString(v.num)
  ELSE IF IsObj(v) THEN v.obj
  ELSE IF IsArr(v) THEN
    "[" \o Join([k \in 1..Len(v.arr) |->
                   IF v.arr[k] = Null THEN "null" ELSE JsonProps(v.arr[k], PartFields)], ",")
        \o "]"
  ELSE "null"

\* safeJson: JSON.stringify, or null when it throws
safeJson(message) ==
  IF message.cyclic THEN Null ELSE Str(JsonProps(message, MsgFields))

(***************************************************************************)
(* Legacy reasoning markup: <think>...</think> and <thinking>...           *)
(* </thinking>, matched case-insensitively, whitespace allowed inside the  *)
(* angle brackets, the span taken non-greedily.                            *)
(***************************************************************************)
RECURSIVE SkipWs(_, _)
SkipWs(s, i) ==
  IF i <= Len(s) /\ IsWhitespace(CharAt(s, i)) THEN SkipWs(s, i + 1) ELSE i

MatchCI(s, i, w) ==
  /\ i + Len(w) - 1 <= Len(s)
  /\ toLowerCase(SubSeq(s, i, i + Len(w) - 1)) = w

\* ">" at c, after the tag name and its trailing whitespace
TagClose(s, c) == IF c <= Len(s) /\ CharAt(s, c) = ">" THEN c + 1 ELSE 0

\* think(?:ing)?\s*> from position k on; k = 0 when the tag has already failed
TagName(s, k) ==
  IF k = 0 \/ ~MatchCI(s, k, "think") THEN 0
  ELSE TagClose(s, SkipWs(s, IF MatchCI(s, k + 5, "ing") THEN k + 8 ELSE k + 5))

\* the "/" of a closing tag and the whitespace after it, from position j on
TagSlash(s, j, closing) ==
  IF ~closing THEN j
  ELSE IF j <= Len(s) /\ CharAt(s, j) = "/" THEN SkipWs(s, j + 1)
  ELSE 0

\* the position after the tag that starts at i, or 0 when no tag starts there
TagEnd(s, i, closing) ==
  IF i > Len(s) \/ CharAt(s, i) # "<" THEN 0
  ELSE TagName(s, TagSlash(s, SkipWs(s, i + 1), closing))

\* the first position >= i where a tag starts, or 0
RECURSIVE FindTag(_, _, _)
FindTag(s, i, closing) ==
  IF i > Len(s) THEN 0
  ELSE IF TagEnd(s, i, closing) # 0 THEN i
  ELSE FindTag(s, i + 1, closing)

SpanToClose(s, open, afterOpen, close) ==
  IF close = 0 THEN <<>> ELSE <<open, afterOpen, close, TagEnd(s, close, TRUE)>>

SpanAfterOpen(s, open, afterOpen) ==
  SpanToClose(s, open, afterOpen, FindTag(s, afterOpen, TRUE))

SpanFromOpen(s, open) ==
  IF open = 0 THEN <<>> ELSE SpanAfterOpen(s, open, TagEnd(s, open, FALSE))

\* the first span from position `from` on: <<open, afterOpen, close, afterClose>>,
\* or <<>> when there is none
FirstThinkSpan(s, from) == SpanFromOpen(s, FindTag(s, from, FALSE))

\* stripThinkingTags (../format): every span removed
RECURSIVE stripThinkingTags(_)
StripSpan(value, span) ==
  IF span = <<>> THEN value
  ELSE SubSeq(value, 1, span[1] - 1)
         \o stripThinkingTags(SubSeq(value, span[4], Len(value)))

stripThinkingTags(value) == StripSpan(value, FirstThinkSpan(value, 1))

(***************************************************************************)
(* Content extraction.                                                     *)
(***************************************************************************)
\* the text of the parts with type "text" and a string text (a null part makes
\* the read of item.type throw: extractTextThrows below; it yields no text here)
TextParts(content) ==
  LET isText(p) == p # Null /\ p.type = Str("text") /\ IsStr(p.text)
      kept == SelectSeq(content, isText)
  IN [k \in 1..Len(kept) |-> kept[k].text.str]

\* role === "assistant" ? stripThinkingTags(t) : t
StripFor(role, t) == Str(IF role = "assistant" THEN stripThinkingTags(t) ELSE t)

extractText(message) ==
  LET role == IF IsStr(message.role) THEN message.role.str ELSE ""
      content == message.content
  IN IF IsStr(content) THEN StripFor(role, content.str)
     ELSE IF IsArr(content) /\ Len(TextParts(content.arr)) > 0
       THEN StripFor(role, Join(TextParts(content.arr), "\n"))
     ELSE IF IsStr(message.text) THEN StripFor(role, message.text.str)
     ELSE Null

(***************************************************************************)
(* Key derivation.                                                         *)
(***************************************************************************)
fingerprintOf(message) ==
  Coalesce(extractText(message),
           IF IsStr(message.content) THEN message.content ELSE Null)

\* fingerprint ?? safeJson(message) ?? String(index)
seedOf(message, index) ==
  Coalesce(Coalesce(fingerprintOf(message), safeJson(message)), Str(ToString(index)))

\* timestamp ? `msg:${role}:${timestamp}:${hash}` : `msg:${role}:${hash}`
fallbackKey(role, timestamp, hash) ==
  IF timestamp # Null /\ timestamp.num # 0
  THEN "msg:" \o role \o ":" \o ToString(timestamp.num) \o ":" \o hash
  ELSE "msg:" \o role \o ":" \o hash

messageKey(message, index) ==
  LET toolCallId == IF IsStr(message.toolCallId) THEN message.toolCallId.str ELSE ""
      id == IF IsStr(message.id) THEN message.id.str ELSE ""
      messageId == IF IsStr(message.messageId) THEN message.messageId.str ELSE ""
      timestamp == IF IsNum(message.timestamp) THEN message.timestamp ELSE Null
      role == IF IsStr(message.role) THEN message.role.str ELSE "unknown"
  IN IF toolCallId # "" THEN "tool:" \o toolCallId
     ELSE IF id # "" THEN "msg:" \o id
     ELSE IF messageId # "" THEN "msg:" \o messageId
     ELSE fallbackKey(role, timestamp, fnv1a(seedOf(message, index).str))

(***************************************************************************)
(* Normalization.                                                          *)
(***************************************************************************)
\* item.type || "text", item.args || item.arguments: the falsy values of the model
Falsy(v) == IsNullish(v) \/ v = Str("") \/ v = Num(0)

\* faulty variant: the literal role is kept when an identifier is present
normalizedRoleLiteral(message) ==
  IF IsStr(message.role) THEN message.role.str ELSE "unknown"

\* the role of the normalized message: "toolResult" when toolCallId or
\* tool_call_id is a string, whatever m.role says
normalizedRole(message) ==
  IF IsStr(message.toolCallId) \/ IsStr(message.tool_call_id) THEN "toolResult"
  ELSE IF IsStr(message.role) THEN message.role.str
  ELSE "unknown"

normalizeMessage(message, now) ==
  LET role == normalizedRole(message)
      part(p) == [type |-> IF Falsy(p.type) THEN Str("text") ELSE p.type,
                  text |-> p.text,
                  name |-> p.name,
                  args |-> IF Falsy(p.args) THEN p.arguments ELSE p.args]
      content == IF IsStr(message.content)
                   THEN <<[type |-> Str("text"), text |-> message.content,
                           name |-> Undefined, args |-> Undefined]>>
                 ELSE IF IsArr(message.content)
                   THEN [k \in 1..Len(message.content.arr) |-> part(message.content.arr[k])]
                 ELSE IF IsStr(message.text)
                   THEN <<[type |-> Str("text"), text |-> message.text,
                           name |-> Undefined, args |-> Undefined]>>
                 ELSE <<>>
      timestamp == IF IsNum(message.timestamp) THEN message.timestamp.num ELSE now
  IN [role |-> role, content |-> content, timestamp |-> timestamp,
      id |-> IF IsStr(message.id) THEN message.id ELSE Undefined]

\* faulty variant: the role is compared as written, without lower-casing
normalizeRoleForGroupingExact(role) ==
  IF role \in {"toolresult", "tool_result", "tool", "function"}
  THEN "assistant" ELSE role

normalizeRoleForGrouping(role) ==
  LET lower == toLowerCase(role)
  IN IF lower \in {"toolresult", "tool_result", "tool", "function"}
     THEN "assistant" ELSE role

isToolResultMessage(message) ==
  LET role == IF IsStr(message.role) THEN toLowerCase(message.role.str) ELSE ""
  IN role = "toolresult" \/ role = "tool_result"

(***************************************************************************)
(* Grouping.                                                               *)
(***************************************************************************)
NoGroup == [none |-> TRUE]

\* faulty variant: the role of the open group is not compared
GroupMessageAnyRole(st, item, role, timestamp) ==
  IF st.currentGroup = NoGroup THEN
    [result |-> st.result,
     currentGroup |-> [kind |-> "group",
                       key |-> "group:" \o role \o ":" \o item.key,
                       role |-> role,
                       messages |-> <<[message |-> item.message, key |-> item.key]>>,
                       timestamp |-> timestamp,
                       isStreaming |-> FALSE]]
  ELSE
    [result |-> st.result,
     currentGroup |-> [st.currentGroup EXCEPT
                         !.messages = Append(@, [message |-> item.message,
                                                 key |-> item.key])]]

\* the message branch of the loop body: role and timestamp are those computed
\* from the normalized message
GroupMessage(st, item, role, timestamp) ==
  IF st.currentGroup = NoGroup \/ st.currentGroup.role # role THEN
    [result |-> IF st.currentGroup # NoGroup
                  THEN Append(st.result, st.currentGroup) ELSE st.result,
     currentGroup |-> [kind |-> "group",
                       key |-> "group:" \o role \o ":" \o item.key,
                       role |-> role,
                       messages |-> <<[message |-> item.message, key |-> item.key]>>,
                       timestamp |-> timestamp,
                       isStreaming |-> FALSE]]
  ELSE
    [result |-> st.result,
     currentGroup |-> [st.currentGroup EXCEPT
                         !.messages = Append(@, [message |-> item.message,
                                                 key |-> item.key])]]

\* normalized.timestamp || Date.now()
GroupNormalized(st, item, normalized, now) ==
  GroupMessage(st, item, normalizeRoleForGrouping(normalized.role),
               IF normalized.timestamp # 0 THEN normalized.timestamp ELSE now)

\* faulty variant: a non-message item is pushed before the group it closes
GroupStepItemFirst(st, item, now) ==
  IF item.kind # "message" THEN
    [result |-> (st.result \o <<item>>)
                \o (IF st.currentGroup # NoGroup THEN <<st.currentGroup>> ELSE <<>>),
     currentGroup |-> NoGroup]
  ELSE GroupNormalized(st, item, normalizeMessage(item.message, now), now)

\* one iteration of the loop of groupMessages over `item`;
\* st = [result, currentGroup]
GroupStep(st, item, now) ==
  IF item.kind # "message" THEN
    [result |-> (IF st.currentGroup # NoGroup
                   THEN Append(st.result, st.currentGroup) ELSE st.result)
                \o <<item>>,
     currentGroup |-> NoGroup]
  ELSE GroupNormalized(st, item, normalizeMessage(item.message, now), now)

\* for (const item of items), over items[lo..hi] in order; the range is split in
\* two so that the evaluation nests to a depth logarithmic in its length
RECURSIVE GroupLoop(_, _, _, _, _)
GroupLoop(st, items, lo, hi, now) ==
  IF lo > hi THEN st
  ELSE IF lo = hi THEN GroupStep(st, items[lo], now)
  ELSE LET mid == (lo + hi) \div 2
           left == GroupLoop(st, items, lo, mid, now)
       IN IF Len(left.result) >= 0 THEN GroupLoop(left, items, mid + 1, hi, now) ELSE left

\* if (currentGroup) result.push(currentGroup); return result
GroupFinish(st) ==
  IF st.currentGroup # NoGroup THEN Append(st.result, st.currentGroup) ELSE st.result

groupMessages(items, now) ==
  GroupFinish(GroupLoop([result |-> <<>>, currentGroup |-> NoGroup],
                        items, 1, Len(items), now))

(***************************************************************************)
(* The item builder.  props = [sessionKey, messages, toolMessages, stream, *)
(* streamStartedAt, useNewChatLayout]; now is the value of Date.now().     *)
(***************************************************************************)
CHAT_HISTORY_RENDER_LIMIT == 200

Max(a, b) == IF a >= b THEN a ELSE b

\* faulty variant: the window is cut one entry early (>= for >)
historyStartInclusive(history) == Max(0, Len(history) - CHAT_HISTORY_RENDER_LIMIT + 1)

historyStartOf(history) == Max(0, Len(history) - CHAT_HISTORY_RENDER_LIMIT)

MessageItem(key, message) == [kind |-> "message", key |-> key, message |-> message]

noticeItems(history, now) ==
  LET historyStart == historyStartOf(history)
  IN IF historyStart > 0
     THEN <<MessageItem("chat:history:notice",
              [EmptyMsg EXCEPT
                 !.role = Str("system"),
                 !.content = Str("Showing last " \o ToString(CHAT_HISTORY_RENDER_LIMIT)
                                 \o " messages (" \o ToString(historyStart) \o " hidden)."),
                 !.timestamp = Num(now)])>>
     ELSE <<>>

\* the index messageKey is given for the k-th rendered history entry:
\* i of for (let i = historyStart; i < history.length; i++)
historyIndex(history, k) == historyStartOf(history) + k - 1

\* faulty variant: the tool loop passes its own counter
toolIndexNoOffset(history, k) == k - 1

\* the index messageKey is given for the k-th tool message: i + history.length
toolIndex(history, k) == (k - 1) + Len(history)

\* for (let i = historyStart; i < history.length; i++)
historyItems(history) ==
  LET historyStart == historyStartOf(history)
  IN [k \in 1..(Len(history) - historyStart) |->
        MessageItem(messageKey(history[historyStart + k], historyIndex(history, k)),
                    history[historyStart + k])]

\* for (let i = 0; i < tools.length; i++)
toolItems(history, tools) ==
  [k \in 1..Len(tools) |->
     MessageItem(messageKey(tools[k], toolIndex(history, k)), tools[k])]

\* faulty variant: `if (props.stream)` for `if (props.stream !== null)`
liveItemsTruthy(props, now) ==
  IF props.stream # Null /\ props.stream.str # "" THEN
    LET key == "stream:" \o props.sessionKey \o ":"
                 \o (IF props.streamStartedAt # Null
                       THEN ToString(props.streamStartedAt.num) ELSE "live")
    IN IF HasNonWhitespace(props.stream.str)
       THEN <<[kind |-> "stream", key |-> key, text |-> props.stream.str,
               startedAt |-> IF props.streamStartedAt # Null
                               THEN props.streamStartedAt.num ELSE now]>>
       ELSE <<[kind |-> "reading-indicator", key |-> key]>>
  ELSE <<>>

\* faulty variant: the reading indicator is keyed apart from the stream item
liveItemsKindKey(props, now) ==
  IF props.stream # Null THEN
    LET slot == props.sessionKey \o ":"
                  \o (IF props.streamStartedAt # Null
                        THEN ToString(props.streamStartedAt.num) ELSE "live")
    IN IF HasNonWhitespace(props.stream.str)
       THEN <<[kind |-> "stream", key |-> "stream:" \o slot, text |-> props.stream.str,
               startedAt |-> IF props.streamStartedAt # Null
                               THEN props.streamStartedAt.num ELSE now]>>
       ELSE <<[kind |-> "reading-indicator", key |-> "reading:" \o slot]>>
  ELSE <<>>

\* faulty variant: an absent start time is keyed by the clock
liveItemsClockKey(props, now) ==
  IF props.stream # Null THEN
    LET key == "stream:" \o props.sessionKey \o ":"
                 \o ToString(IF props.streamStartedAt # Null
                               THEN props.streamStartedAt.num ELSE now)
    IN IF HasNonWhitespace(props.stream.str)
       THEN <<[kind |-> "stream", key |-> key, text |-> props.stream.str,
               startedAt |-> IF props.streamStartedAt # Null
                               THEN props.streamStartedAt.num ELSE now]>>
       ELSE <<[kind |-> "reading-indicator", key |-> key]>>
  ELSE <<>>

liveItems(props, now) ==
  IF props.stream # Null THEN
    LET key == "stream:" \o props.sessionKey \o ":"
                 \o (IF props.streamStartedAt # Null
                       THEN ToString(props.streamStartedAt.num) ELSE "live")
    IN IF HasNonWhitespace(props.stream.str)
       THEN <<[kind |-> "stream", key |-> key, text |-> props.stream.str,
               startedAt |-> IF props.streamStartedAt # Null
                               THEN props.streamStartedAt.num ELSE now]>>
       ELSE <<[kind |-> "reading-indicator", key |-> key]>>
  ELSE <<>>

\* faulty variant: the tool messages are pushed before the history
flatItemsToolsFirst(props, now) ==
  noticeItems(props.messages, now)
    \o toolItems(props.messages, props.toolMessages)
    \o historyItems(props.messages)
    \o liveItems(props, now)

flatItems(props, now) ==
  noticeItems(props.messages, now)
    \o historyItems(props.messages)
    \o toolItems(props.messages, props.toolMessages)
    \o liveItems(props, now)

\* if (props.useNewChatLayout) return groupMessages(items); return items
LayoutItems(grouped, flat, now) == IF grouped THEN groupMessages(flat, now) ELSE flat

buildChatItems(props, now) ==
  LayoutItems(props.useNewChatLayout, flatItems(props, now), now)

(***************************************************************************)
(* Bounds of the model and the inputs it draws from.                       *)
(***************************************************************************)
MaxHist == 2        \* history entries appended under Spec
MaxTools == 1       \* tool messages
MaxStreamLen == 2   \* characters of live text
MaxClock == 2       \* values of Date.now()
MaxHidden == 2      \* history entries beyond the render limit under SpecWindow
MaxItems == 4       \* items handed to groupMessages under SpecGroup
MaxWindowStreamLen == 1   \* characters of live text under SpecWindow

UserHi == [EmptyMsg EXCEPT !.role = Str("user"), !.content = Str("hi")]
UserHi0 == [UserHi EXCEPT !.timestamp = Num(0)]
UserHi7 == [UserHi EXCEPT !.timestamp = Num(7)]
AsstOk5 == [EmptyMsg EXCEPT !.role = Str("assistant"), !.content = Str("ok"),
                            !.timestamp = Num(5)]
AsstParts == [EmptyMsg EXCEPT !.role = Str("assistant"), !.id = Str("a1"),
                              !.content = Arr(<<TextPart("ok")>>)]
ToolSnake == [EmptyMsg EXCEPT !.role = Str("tool"), !.tool_call_id = Str("c1"),
                              !.content = Str("out")]
ToolCamel == [EmptyMsg EXCEPT !.role = Str("user"), !.toolCallId = Str("c1"),
                              !.id = Str("a1"), !.content = Str("r")]
ToolResult == [EmptyMsg EXCEPT !.role = Str("toolResult"), !.toolName = Str("grep"),
                               !.content = Str("matches")]
WithMessageId == [EmptyMsg EXCEPT !.role = Str("user"), !.messageId = Str("b1"),
                                  !.content = Str("hi")]

\* what the transport may put into the history and into the tool messages
HistoryMsgs == {UserHi0, AsstOk5}
ToolMsgs == {ToolSnake, AsstOk5}
StreamChunks == {" ", "h"}
\* props.streamStartedAt of a starting turn: absent, or a time (0 is not nullish)
StreamStarts == {Null, Num(0)}

\* a loaded history of n entries, told apart by their timestamps
Loaded(n) ==
  [k \in 1..n |->
     [EmptyMsg EXCEPT !.role = Str(IF (k \div 2) % 2 = 0 THEN "user" ELSE "assistant"),
                      !.content = Str("m"),
                      !.timestamp = Num(1000 + k)]]

WindowMsgs == {UserHi}
WindowToolMsgs == {ToolCamel}
WindowChunks == {"h"}

\* the items groupMessages is applied to under SpecGroup
StreamItem == [kind |-> "stream", key |-> "stream:main:live", text |-> "h", startedAt |-> 1]
ReadingItem == [kind |-> "reading-indicator", key |-> "stream:main:live"]
GroupMsgs == {UserHi0, AsstOk5, ToolSnake, ToolResult, ToolCamel}

(***************************************************************************)
(* The view as a state machine.  props is what renderChat is called with; *)
(* every change of props renders, and rendering calls buildChatItems.      *)
(***************************************************************************)
VARIABLES props, now, items, lastEvent, input, output

vars == <<props, now, items, lastEvent, input, output>>

\* isToolOutputExpanded is given by the set of the ids it answers true for;
\* showReasoning is what renderChat derives from props.sessions
InitProps(history) ==
  [sessionKey |-> "main", messages |-> history, toolMessages |-> <<>>,
   stream |-> Null, streamStartedAt |-> Null, useNewChatLayout |-> FALSE,
   isToolOutputExpanded |-> {}, showReasoning |-> FALSE]

\* renderChat: the thread is rebuilt from the props
Rendered(newProps, clock, event) ==
  /\ props' = newProps
  /\ now' = clock
  /\ items' = buildChatItems(newProps, clock)
  /\ lastEvent' = event
  /\ UNCHANGED <<input, output>>

HistoryAppend(m, maxLen) ==
  /\ Len(props.messages) < maxLen
  /\ Rendered([props EXCEPT !.messages = Append(@, m)], now, "input")

ToolAppend(m, maxLen) ==
  /\ Len(props.toolMessages) < maxLen
  /\ Rendered([props EXCEPT !.toolMessages = Append(@, m)], now, "input")

StreamStart(startedAt) ==
  /\ props.stream = Null
  /\ Rendered([props EXCEPT !.stream = Str(""), !.streamStartedAt = startedAt],
              now, "input")

StreamDelta(chunk, maxLen) ==
  /\ props.stream # Null
  /\ Len(props.stream.str) < maxLen
  /\ Rendered([props EXCEPT !.stream = Str(@.str \o chunk)], now, "input")

StreamCancel ==
  /\ props.stream # Null
  /\ Rendered([props EXCEPT !.stream = Null, !.streamStartedAt = Null], now, "cancel")

ToggleLayout ==
  Rendered([props EXCEPT !.useNewChatLayout = ~@], now, "input")

\* a render with the props unchanged, at a later moment
Rerender ==
  /\ now < MaxClock
  /\ Rendered(props, now + 1, "rerender")

Init ==
  /\ props = InitProps(<<>>)
  /\ now = 1
  /\ items = buildChatItems(props, now)
  /\ lastEvent = "init"
  /\ input = <<>>
  /\ output = <<>>

Next ==
  \/ \E m \in HistoryMsgs : HistoryAppend(m, MaxHist)
  \/ \E m \in ToolMsgs : ToolAppend(m, MaxTools)
  \/ \E t \in StreamStarts : StreamStart(t)
  \/ \E c \in StreamChunks : StreamDelta(c, MaxStreamLen)
  \/ StreamCancel
  \/ ToggleLayout
  \/ Rerender

Spec == Init /\ [][Next]_vars

(***************************************************************************)
(* The same view over a loaded history at the render limit.                *)
(***************************************************************************)
InitWindow ==
  /\ props = InitProps(Loaded(CHAT_HISTORY_RENDER_LIMIT - 1))
  /\ now = 1
  /\ items = buildChatItems(props, now)
  /\ lastEvent = "init"
  /\ input = <<>>
  /\ output = <<>>

NextWindow ==
  \/ \E m \in WindowMsgs : HistoryAppend(m, CHAT_HISTORY_RENDER_LIMIT + MaxHidden)
  \/ \E m \in WindowToolMsgs : ToolAppend(m, MaxTools)
  \/ \E t \in StreamStarts : StreamStart(t)
  \/ \E c \in WindowChunks : StreamDelta(c, MaxWindowStreamLen)
  \/ StreamCancel
  \/ ToggleLayout
  \/ Rerender

SpecWindow == InitWindow /\ [][NextWindow]_vars

(***************************************************************************)
(* groupMessages applied to item sequences of every shape, a live item at  *)
(* any position included.                                                  *)
(***************************************************************************)
GroupItems ==
  {MessageItem(messageKey(m, 0), m) : m \in GroupMsgs} \cup {StreamItem, ReadingItem}

SeqsUpTo(S, n) == UNION {[1..k -> S] : k \in 0..n}

InitGroup ==
  /\ props = InitProps(<<>>)
  /\ now = 1
  /\ items = <<>>
  /\ lastEvent = "init"
  /\ input \in SeqsUpTo(GroupItems, MaxItems)
  /\ output = <<>>

ApplyGroup ==
  /\ lastEvent = "init"
  /\ output' = groupMessages(input, now)
  /\ lastEvent' = "grouped"
  /\ UNCHANGED <<props, now, items, input>>

NextGroup == ApplyGroup

SpecGroup == InitGroup /\ [][NextGroup]_vars

(***************************************************************************)
(* Vocabulary of the properties.                                           *)
(***************************************************************************)
NoticeKey == "chat:history:notice"

IsLive(item) == item.kind \in {"stream", "reading-indicator"}

LivePositions(its) == {i \in 1..Len(its) : IsLive(its[i])}

\* the one live item of `its`, when there is exactly one
LiveItem(its) == its[CHOOSE i \in LivePositions(its) : TRUE]

\* the entries of its[lo..hi] in order, every group replaced by its messages
RECURSIVE Ungroup(_, _, _)
Ungroup(its, lo, hi) ==
  IF lo > hi THEN <<>>
  ELSE IF lo = hi THEN
    IF its[lo].kind = "group"
    THEN [k \in 1..Len(its[lo].messages) |->
            MessageItem(its[lo].messages[k].key, its[lo].messages[k].message)]
    ELSE <<its[lo]>>
  ELSE Ungroup(its, lo, (lo + hi) \div 2) \o Ungroup(its, (lo + hi) \div 2 + 1, hi)

\* the message items of an output, groups opened, live items left out
MessageEntries(its) == SelectSeq(Ungroup(its, 1, Len(its)), LAMBDA it : it.kind = "message")

Min(a, b) == IF a <= b THEN a ELSE b

AllWhitespace(s) == \A i \in 1..Len(s) : CharAt(s, i) \in {" ", "\t", "\n", "\r"}

StartsWith(s, prefix) ==
  Len(s) >= Len(prefix) /\ SubSeq(s, 1, Len(prefix)) = prefix

(***************************************************************************)
(* C1: in every sequence buildChatItems returns, no two top-level entries  *)
(* have the same key.  The code derives the key of a message without an    *)
(* identifier from its role, timestamp and text alone, so this fails.      *)
(***************************************************************************)
C1_KeysUnique ==
  \A i, j \in 1..Len(items) : i # j => items[i].key # items[j].key

(***************************************************************************)
(* C2: two builds from identical props are deep-equal in every field,      *)
(* whenever they are made.  Stated over two consecutive renders; the       *)
(* clock-derived fields make it fail.                                      *)
(***************************************************************************)
C2_DeepEqualAcrossBuilds == [][props' = props => items' = items]_vars

\* a message entry with the timestamp of the truncation notice blanked
EraseNotice(key, message) ==
  IF key = NoticeKey THEN [message EXCEPT !.timestamp = Undefined] ELSE message

\* whether the timestamp of a group that starts with `entry` is read off the
\* clock: the notice carries the clock, any other message falls back to it
ClockStamped(entry) ==
  \/ entry.key = NoticeKey
  \/ ~(IsNum(entry.message.timestamp) /\ entry.message.timestamp.num # 0)

\* an output entry with its clock-derived fields blanked: the notice's timestamp,
\* the startedAt of a stream item when p.streamStartedAt is absent, and the
\* timestamp of a group whose first message is the notice or has no non-zero
\* numeric timestamp
EraseClock(item, p) ==
  IF item.kind = "message"
    THEN [item EXCEPT !.message = EraseNotice(item.key, @)]
  ELSE IF item.kind = "stream"
    THEN [item EXCEPT !.startedAt = IF p.streamStartedAt = Null THEN 0 ELSE @]
  ELSE IF item.kind = "group"
    THEN [item EXCEPT
            !.timestamp = IF ClockStamped(item.messages[1]) THEN 0 ELSE @,
            !.messages = [k \in 1..Len(item.messages) |->
                            [message |-> EraseNotice(item.messages[k].key,
                                                     item.messages[k].message),
                             key |-> item.messages[k].key]]]
  ELSE item

ErasedItems(its, p) == [k \in 1..Len(its) |-> EraseClock(its[k], p)]

\* C2 as amended: two builds from identical props agree in every field but the
\* clock-derived ones (same length, kinds, keys, roles, messages, text)
C2_EqualUpToClock ==
  [][props' = props => ErasedItems(items', props') = ErasedItems(items, props)]_vars

\* a re-render at a later moment of a truncated history with a live stream
\* whose start time is absent
C2_Witness ==
  /\ lastEvent = "rerender"
  /\ now > 1
  /\ historyStartOf(props.messages) > 0
  /\ props.stream # Null
  /\ props.streamStartedAt = Null
  /\ HasNonWhitespace(props.stream.str)

C4_Windowing ==
  LET entries == MessageEntries(items)
      n == Len(props.messages)
      notices == {k \in 1..Len(entries) : entries[k].key = NoticeKey}
  IN IF n > CHAT_HISTORY_RENDER_LIMIT
     THEN /\ notices = {1}
          /\ entries[1].message.role = Str("system")
          /\ entries[1].message.content =
               Str("Showing last 200 messages (" \o ToString(n - CHAT_HISTORY_RENDER_LIMIT)
                   \o " hidden).")
          /\ Len(entries) = 1 + CHAT_HISTORY_RENDER_LIMIT + Len(props.toolMessages)
          /\ \A k \in 1..CHAT_HISTORY_RENDER_LIMIT :
               entries[1 + k].message = props.messages[n - CHAT_HISTORY_RENDER_LIMIT + k]
     ELSE /\ notices = {}
          /\ Len(entries) = n + Len(props.toolMessages)
          /\ \A k \in 1..n : entries[k].message = props.messages[k]

\* a build of a history two entries over the limit
C4_Witness ==
  /\ Len(props.messages) = CHAT_HISTORY_RENDER_LIMIT + 2
  /\ Len(items) > 0
  /\ items[1].key \in {NoticeKey, "group:system:" \o NoticeKey}

(***************************************************************************)
(* C5: a build holds a live item iff the live text is not absent: none     *)
(* when it is absent, one reading indicator when it is empty or            *)
(* whitespace, one stream item carrying the text otherwise.                *)
(***************************************************************************)
C5_LiveItem ==
  IF props.stream = Null THEN LivePositions(items) = {}
  ELSE /\ Cardinality(LivePositions(items)) = 1
       /\ IF AllWhitespace(props.stream.str)
          THEN LiveItem(items).kind = "reading-indicator"
          ELSE /\ LiveItem(items).kind = "stream"
               /\ LiveItem(items).text = props.stream.str

\* the build right after a cancelled turn
C5_Witness ==
  /\ lastEvent = "cancel"
  /\ props.stream = Null
  /\ Len(items) > 0
  /\ LivePositions(items) = {}

(***************************************************************************)
(* C6: over the builds of one turn (same session key, same start time)     *)
(* there is exactly one live item and its key never changes; the key is    *)
(* made of the session key and the start time, or "live".                  *)
(***************************************************************************)
SlotKey(p) ==
  "stream:" \o p.sessionKey \o ":"
    \o (IF p.streamStartedAt = Null THEN "live" ELSE ToString(p.streamStartedAt.num))

C6_StableLiveSlot ==
  [][(/\ props.stream # Null
      /\ props'.stream # Null
      /\ props'.sessionKey = props.sessionKey
      /\ props'.streamStartedAt = props.streamStartedAt)
     => /\ Cardinality(LivePositions(items)) = 1
        /\ Cardinality(LivePositions(items')) = 1
        /\ LiveItem(items').key = LiveItem(items).key
        /\ LiveItem(items').key = SlotKey(props)]_vars

\* a later build of a turn without a start time whose text has grown
C6_Witness ==
  /\ props.stream # Null
  /\ props.streamStartedAt = Null
  /\ Len(props.stream.str) >= 2
  /\ HasNonWhitespace(props.stream.str)
  /\ now > 1
  /\ Cardinality(LivePositions(items)) = 1
  /\ LiveItem(items).kind = "stream"

(***************************************************************************)
(* C7: groupMessages never reorders, drops or duplicates: with every group *)
(* replaced by its messages, in order, the output is the input.            *)
(***************************************************************************)
C7_GroupingPreservesItems ==
  lastEvent = "grouped" => Ungroup(output, 1, Len(output)) = input

\* a reading indicator between a single message and a run of two
C7_Witness ==
  /\ lastEvent = "grouped"
  /\ Len(input) = 4
  /\ input[2] = ReadingItem
  /\ Len(output) = 3
  /\ output[3].kind = "group"
  /\ Len(output[3].messages) = 2

(***************************************************************************)
(* C8: the groups are the maximal runs of consecutive message items of one *)
(* canonical role: non-empty, of one role, adjacent groups of different    *)
(* roles, a non-message item passed through and splitting the run; roles   *)
(* [user, assistant, assistant, user] give groups of sizes [1,2,1], and    *)
(* [assistant, assistant, stream, assistant] a group of 2, the stream      *)
(* item and a group of 1.                                                  *)
(***************************************************************************)
CanonicalRole(message) ==
  normalizeRoleForGrouping(normalizeMessage(message, now).role)

\* the positions of `its` at which a run of message items of one role starts
RunStarts(its) ==
  {i \in 1..Len(its) :
     /\ its[i].kind = "message"
     /\ \/ i = 1
        \/ its[i - 1].kind # "message"
        \/ CanonicalRole(its[i - 1].message) # CanonicalRole(its[i].message)}

GroupSizes(out) ==
  [k \in 1..Len(out) |-> IF out[k].kind = "group" THEN Len(out[k].messages) ELSE 0]

C8_MaximalRuns ==
  lastEvent = "grouped" =>
    /\ \A k \in 1..Len(output) :
         \/ /\ output[k].kind = "group"
            /\ Len(output[k].messages) > 0
            /\ \A j \in 1..Len(output[k].messages) :
                 CanonicalRole(output[k].messages[j].message) = output[k].role
         \/ /\ IsLive(output[k])
            /\ output[k] \in {input[i] : i \in 1..Len(input)}
    /\ \A k \in 1..(Len(output) - 1) :
         (output[k].kind = "group" /\ output[k + 1].kind = "group")
           => output[k].role # output[k + 1].role
    /\ Cardinality({k \in 1..Len(output) : output[k].kind = "group"})
         = Cardinality(RunStarts(input))
    /\ Cardinality(LivePositions(output)) = Cardinality(LivePositions(input))
    /\ (input = <<MessageItem(messageKey(UserHi0, 0), UserHi0),
                  MessageItem(messageKey(AsstOk5, 0), AsstOk5),
                  MessageItem(messageKey(AsstOk5, 0), AsstOk5),
                  MessageItem(messageKey(UserHi0, 0), UserHi0)>>
        => /\ GroupSizes(output) = <<1, 2, 1>>
           /\ [k \in 1..Len(output) |-> output[k].role] = <<"user", "assistant", "user">>)
    /\ (input = <<MessageItem(messageKey(AsstOk5, 0), AsstOk5),
                  MessageItem(messageKey(AsstOk5, 0), AsstOk5),
                  StreamItem,
                  MessageItem(messageKey(AsstOk5, 0), AsstOk5)>>
        => /\ GroupSizes(output) = <<2, 0, 1>>
           /\ output[2] = StreamItem
           /\ output[1].role = "assistant"
           /\ output[3].role = "assistant")

\* two assistant messages, the stream item, one more assistant message
C8_Witness ==
  /\ lastEvent = "grouped"
  /\ input = <<MessageItem(messageKey(AsstOk5, 0), AsstOk5),
               MessageItem(messageKey(AsstOk5, 0), AsstOk5),
               StreamItem,
               MessageItem(messageKey(AsstOk5, 0), AsstOk5)>>
  /\ Len(output) = 3

(***************************************************************************)
(* C9: the key of a message follows the precedence, first match winning:   *)
(* a tool-call identifier (toolCallId or tool_call_id) gives "tool:" + it, *)
(* else id gives "msg:" + id, else messageId gives "msg:" + messageId,     *)
(* and only otherwise the fingerprint key.  The code reads toolCallId      *)
(* only, so a message carrying tool_call_id gets a fingerprint key.        *)
(***************************************************************************)
HasText(v) == IsStr(v) /\ v.str # ""

\* the history and tool entries of the output: its message entries but the notice
KeyedEntries == SelectSeq(MessageEntries(items), LAMBDA it : it.key # NoticeKey)

C9_KeyPrecedence ==
  \A k \in 1..Len(KeyedEntries) :
    LET key == KeyedEntries[k].key
        m == KeyedEntries[k].message
    IN IF HasText(m.toolCallId) THEN key = "tool:" \o m.toolCallId.str
       ELSE IF HasText(m.tool_call_id) THEN key = "tool:" \o m.tool_call_id.str
       ELSE IF HasText(m.id) THEN key = "msg:" \o m.id.str
       ELSE IF HasText(m.messageId) THEN key = "msg:" \o m.messageId.str
       ELSE StartsWith(key, "msg:" \o (IF IsStr(m.role) THEN m.role.str ELSE "unknown") \o ":")

(***************************************************************************)
(* C10: a message with no tool-call id, id or messageId whose timestamp is *)
(* a number, 0 included, has the key "msg:" + role + ":" + timestamp + ":" *)
(* + hash, and the key "msg:" + role + ":" + hash only when it has no      *)
(* numeric timestamp.  The code tests the timestamp for truthiness, so a   *)
(* timestamp of 0 gives the key without timestamp.                         *)
(***************************************************************************)
C10_FallbackKeyTimestamp ==
  \A k \in 1..Len(KeyedEntries) :
    LET key == KeyedEntries[k].key
        m == KeyedEntries[k].message
        role == IF IsStr(m.role) THEN m.role.str ELSE "unknown"
    IN (~HasText(m.toolCallId) /\ ~HasText(m.tool_call_id)
        /\ ~HasText(m.id) /\ ~HasText(m.messageId))
       => IF IsNum(m.timestamp)
          THEN StartsWith(key, "msg:" \o role \o ":" \o ToString(m.timestamp.num) \o ":")
          ELSE /\ StartsWith(key, "msg:" \o role \o ":")
               /\ \A i \in (Len(role) + 6)..Len(key) : CharAt(key, i) # ":"

(***************************************************************************)
(* Tool cards.  A card is [kind, name, args, text], its fields JavaScript  *)
(* values.                                                                 *)
(***************************************************************************)
\* content.filter(Boolean) over an array, [] for anything else
normalizeContent(content) ==
  IF IsArr(content) THEN SelectSeq(content.arr, LAMBDA p : ~Falsy(p)) ELSE <<>>

\* String.prototype.trim
RECURSIVE TrimStart(_)
TrimStart(s) ==
  IF Len(s) > 0 /\ IsWhitespace(CharAt(s, 1)) THEN TrimStart(SubSeq(s, 2, Len(s))) ELSE s

RECURSIVE TrimEnd(_)
TrimEnd(s) ==
  IF Len(s) > 0 /\ IsWhitespace(CharAt(s, Len(s)))
  THEN TrimEnd(SubSeq(s, 1, Len(s) - 1)) ELSE s

trim(s) == TrimEnd(TrimStart(s))

\* the JSON texts among the argument strings of the model: JSON.parse succeeds
\* on these and throws on every other string that starts with { or [
ParsableJson == {"{}", "[]", "{\"q\":1}"}

\* coerceArgs: a string that looks like JSON is parsed, and kept when parsing fails
coerceArgs(value) ==
  IF ~IsStr(value) THEN value
  ELSE IF trim(value.str) = "" THEN value
  ELSE IF ~StartsWith(trim(value.str), "{") /\ ~StartsWith(trim(value.str), "[") THEN value
  ELSE IF trim(value.str) \in ParsableJson THEN Obj(trim(value.str))
  ELSE value

\* extractToolText
extractToolText(item) ==
  IF IsStr(item.text) THEN item.text
  ELSE IF IsStr(item.content) THEN item.content
  ELSE Undefined

\* String(item.type ?? "").toLowerCase()
PartKind(item) ==
  IF IsStr(item.type) THEN toLowerCase(item.type.str)
  ELSE IF IsNum(item.type) THEN ToString(item.type.num)
  ELSE ""

IsToolCallPart(item) ==
  \/ PartKind(item) \in {"toolcall", "tool_call", "tooluse", "tool_use"}
  \/ IsStr(item.name) /\ ~IsNullish(item.arguments)

IsToolResultPart(item) == PartKind(item) \in {"toolresult", "tool_result"}

\* first loop: the call cards
CallCards(content) ==
  LET calls == SelectSeq(content, IsToolCallPart)
  IN [k \in 1..Len(calls) |->
        [kind |-> "call",
         name |-> Coalesce(calls[k].name, Str("tool")),
         args |-> coerceArgs(Coalesce(calls[k].arguments, calls[k].args)),
         text |-> Undefined]]

\* second loop: the cards of the explicit result parts
ResultCards(content) ==
  LET results == SelectSeq(content, IsToolResultPart)
  IN [k \in 1..Len(results) |->
        [kind |-> "result",
         name |-> IF IsStr(results[k].name) THEN results[k].name ELSE Str("tool"),
         args |-> Undefined,
         text |-> extractToolText(results[k])]]

\* the card pushed for a tool-result message without a result card; its name is
\* (typeof m.toolName === "string" && m.toolName) ||
\* (typeof m.tool_name === "string" && m.tool_name) || "tool"
SynthesizedCards(message, cards) ==
  IF isToolResultMessage(message) /\ ~\E k \in 1..Len(cards) : cards[k].kind = "result"
  THEN <<[kind |-> "result",
          name |-> IF HasText(message.toolName) THEN message.toolName
                   ELSE IF HasText(message.tool_name) THEN message.tool_name
                   ELSE Str("tool"),
          args |-> Undefined,
          text |-> Coalesce(extractText(message), Undefined)]>>
  ELSE <<>>

extractToolCards(message) ==
  LET content == normalizeContent(message.content)
      cards == CallCards(content) \o ResultCards(content)
  IN cards \o SynthesizedCards(message, cards)

(***************************************************************************)
(* Reasoning text.                                                         *)
(***************************************************************************)
\* extractRawText: extractText without the stripping
extractRawText(message) ==
  IF IsStr(message.content) THEN message.content
  ELSE IF IsArr(message.content) /\ Len(TextParts(message.content.arr)) > 0
    THEN Str(Join(TextParts(message.content.arr), "\n"))
  ELSE IF IsStr(message.text) THEN message.text
  ELSE Null

\* the trimmed, non-empty texts of the parts with type "thinking"
ThinkingParts(content) ==
  LET isThinking(p) == /\ p # Null
                       /\ p.type = Str("thinking")
                       /\ IsStr(p.thinking)
                       /\ trim(p.thinking.str) # ""
      kept == SelectSeq(content, isThinking)
  IN [k \in 1..Len(kept) |-> trim(kept[k].thinking.str)]

\* rawText.matchAll(/<\s*think(?:ing)?\s*>([\s\S]*?)<\s*\/\s*think(?:ing)?\s*>/gi):
\* the first groups of the matches from position `from` on, in order
RECURSIVE ThinkMatches(_, _)
ThinkMatchesFrom(s, span) ==
  IF span = <<>> THEN <<>>
  ELSE <<SubSeq(s, span[2], span[3] - 1)>> \o ThinkMatches(s, span[4])

ThinkMatches(s, from) == ThinkMatchesFrom(s, FirstThinkSpan(s, from))

\* .map((m) => (m[1] ?? "").trim()).filter(Boolean)
LegacyThinking(rawText) ==
  LET inner == ThinkMatches(rawText, 1)
      cleaned == [k \in 1..Len(inner) |-> trim(inner[k])]
  IN SelectSeq(cleaned, LAMBDA t : t # "")

\* the back-compat branch: the tag scan of the raw text
LegacyScan(rawText) ==
  IF rawText = Null \/ rawText.str = "" THEN Null
  ELSE IF Len(LegacyThinking(rawText.str)) > 0
    THEN Str(Join(LegacyThinking(rawText.str), "\n"))
  ELSE Null

extractThinking(message) ==
  IF IsArr(message.content) /\ Len(ThinkingParts(message.content.arr)) > 0
    THEN Str(Join(ThinkingParts(message.content.arr), "\n"))
  ELSE LegacyScan(extractRawText(message))

(***************************************************************************)
(* What a message is displayed as.  The renderers are modelled by what     *)
(* they put into the template: the text body, the reasoning text and the   *)
(* tool cards.                                                             *)
(***************************************************************************)
\* JSON.stringify(value, null, 2); an Obj of the model is an empty object or array
RECURSIVE PrettyValue(_, _)
PrettyProps(rec, fields, indent) ==
  LET present == SelectSeq(fields, LAMBDA f : rec[f] # Undefined)
      prop(f) == indent \o "  " \o JsonString(f) \o ": "
                   \o PrettyValue(rec[f], indent \o "  ")
  IN IF Len(present) = 0 THEN "{}"
     ELSE "{\n" \o Join([k \in 1..Len(present) |-> prop(present[k])], ",\n")
            \o "\n" \o indent \o "}"

PrettyValue(v, indent) ==
  IF IsStr(v) THEN JsonString(v.str)
  ELSE IF IsNum(v) THEN ToString(v.num)
  ELSE IF IsObj(v) THEN v.obj
  ELSE IF IsArr(v) THEN
    IF Len(v.arr) = 0 THEN "[]"
    ELSE "[\n"
           \o Join([k \in 1..Len(v.arr) |->
                      indent \o "  "
                        \o (IF v.arr[k] = Null THEN "null"
                            ELSE PrettyProps(v.arr[k], PartFields, indent \o "  "))],
                   ",\n")
           \o "\n" \o indent \o "]"
  ELSE "null"

PrettyJson(message) == PrettyProps(message, MsgFields, "")

\* extractedText?.trim(), contentText?.trim() as conditions
NonBlank(v) == IsStr(v) /\ HasNonWhitespace(v.str)

\* isToolResult of renderMessage
IsToolResultFlat(message) ==
  \/ isToolResultMessage(message)
  \/ IsStr(message.toolCallId)
  \/ IsStr(message.tool_call_id)

\* isToolResult of renderGroupedMessage
IsToolResultGrouped(message) ==
  \/ isToolResultMessage(message)
  \/ (IF IsStr(message.role) THEN toLowerCase(message.role.str) ELSE "unknown")
       \in {"toolresult", "tool_result"}
  \/ IsStr(message.toolCallId)
  \/ IsStr(message.tool_call_id)

\* the `display` of renderMessage; fallback is null when the message has tool cards
DisplayOf(isToolResult, extractedText, contentText, fallback) ==
  IF ~isToolResult /\ NonBlank(extractedText) THEN [kind |-> "text", value |-> extractedText.str]
  ELSE IF ~isToolResult /\ NonBlank(contentText) THEN [kind |-> "text", value |-> contentText.str]
  ELSE IF ~isToolResult /\ fallback # Null THEN [kind |-> "json", value |-> fallback.str]
  ELSE Null

flatDisplay(message) ==
  DisplayOf(IsToolResultFlat(message),
            extractText(message),
            IF IsStr(message.content) THEN message.content ELSE Null,
            IF Len(extractToolCards(message)) > 0 THEN Null ELSE Str(PrettyJson(message)))

\* markdownBase of renderGroupedMessage
groupedDisplay(message) ==
  IF NonBlank(extractText(message))
  THEN [kind |-> "text", value |-> extractText(message).str] ELSE Null

\* opts.showReasoning && role === "assistant" ? extractThinking(message) : null
extractedThinking(message, showReasoning) ==
  IF showReasoning /\ message.role = Str("assistant") THEN extractThinking(message) ELSE Null

\* toolCallId || id || messageId || (timestamp is a number ? String(timestamp) : "tool-card")
toolCardBase(message) ==
  IF HasText(message.toolCallId) THEN message.toolCallId.str
  ELSE IF HasText(message.id) THEN message.id.str
  ELSE IF HasText(message.messageId) THEN message.messageId.str
  ELSE IF IsNum(message.timestamp) THEN ToString(message.timestamp.num)
  ELSE "tool-card"

toolCardId(base, index) == base \o ":" \o ToString(index)

\* renderToolCardLegacy: the <details> element exists when the card has output, is
\* open when expanded, and the output is in the template only when it is open
renderToolCardLegacy(card, id, expanded) ==
  [id |-> id,
   card |-> card,
   details |-> IsStr(card.text) /\ card.text.str # "",
   open |-> expanded,
   output |-> IF IsStr(card.text) /\ card.text.str # "" /\ expanded THEN card.text ELSE Null]

\* renderMessage; isToolOutputExpanded is membership in the set `expandedIds`
renderMessage(message, expandedIds, showReasoning) ==
  [display |-> flatDisplay(message),
   thinking |-> extractedThinking(message, showReasoning),
   cards |-> [k \in 1..Len(extractToolCards(message)) |->
                renderToolCardLegacy(extractToolCards(message)[k],
                                     toolCardId(toolCardBase(message), k - 1),
                                     toolCardId(toolCardBase(message), k - 1) \in expandedIds)]]

\* renderGroupedMessage: nothing, the cards alone, or a bubble of text and cards
renderGroupedMessage(message, showReasoning) ==
  [shape |-> LET hasMarkdown == \/ extractedThinking(message, showReasoning) # Null
                                \/ groupedDisplay(message) # Null
                 hasToolCards == Len(extractToolCards(message)) > 0
             IN IF ~hasMarkdown /\ hasToolCards /\ IsToolResultGrouped(message) THEN "cards"
                ELSE IF ~hasMarkdown /\ ~hasToolCards THEN "nothing"
                ELSE "bubble",
   display |-> groupedDisplay(message),
   thinking |-> extractedThinking(message, showReasoning),
   cards |-> extractToolCards(message)]

(***************************************************************************)
(* Exceptions.  An entry of the arrays is `unknown`: reading a property of *)
(* null or undefined throws a TypeError, and so does JSON.stringify of an  *)
(* object with a reference cycle outside safeJson.  Nothing in the view    *)
(* catches, so a throw in any step leaves renderChat.                      *)
(***************************************************************************)
Thrown == [thrown |-> "TypeError"]

\* the outcome of a call that returns v
Returned(v) == [value |-> v]

\* content.map((p) => ... item.type ...) over an array with a null part
HasNullishPart(content) ==
  IsArr(content) /\ \E k \in 1..Len(content.arr) : IsNullish(content.arr[k])

\* extractText: m.role of a nullish message, item.type of a nullish part
extractTextThrows(message) ==
  IsNullish(message) \/ (~IsStr(message.content) /\ HasNullishPart(message.content))

\* messageKey: m.toolCallId of a nullish message; extractText on the fallback path
messageKeyThrows(message) ==
  \/ IsNullish(message)
  \/ /\ ~HasText(message.toolCallId)
     /\ ~HasText(message.id)
     /\ ~HasText(message.messageId)
     /\ extractTextThrows(message)

\* normalizeMessage: m.role of a nullish message, item.type in m.content.map
normalizeMessageThrows(message) ==
  IsNullish(message) \/ (~IsStr(message.content) /\ HasNullishPart(message.content))

\* renderMessage: extractText, and JSON.stringify(message, null, 2), which is
\* evaluated whenever the message has no tool cards
renderMessageThrows(message) ==
  \/ extractTextThrows(message)
  \/ Len(extractToolCards(message)) = 0 /\ message.cyclic

\* renderGroupedMessage: extractText
renderGroupedMessageThrows(message) == extractTextThrows(message)

\* the entries buildChatItems derives a key for
KeyedMessages(p) ==
  SubSeq(p.messages, historyStartOf(p.messages) + 1, Len(p.messages))
    \o p.toolMessages

\* buildChatItems, or Thrown when a key derivation or a normalization throws
buildChatItemsOutcome(p, clock) ==
  IF \E k \in 1..Len(KeyedMessages(p)) : messageKeyThrows(KeyedMessages(p)[k])
    THEN Thrown
  ELSE IF /\ p.useNewChatLayout
          /\ \E k \in 1..Len(KeyedMessages(p)) :
               normalizeMessageThrows(KeyedMessages(p)[k])
    THEN Thrown
  ELSE Returned(buildChatItems(p, clock))

\* the callback of repeat() in renderChat, for one item
ItemThrows(item) ==
  IF item.kind = "message" THEN renderMessageThrows(item.message)
  ELSE IF item.kind = "group"
    THEN \E k \in 1..Len(item.messages) :
           renderGroupedMessageThrows(item.messages[k].message)
  ELSE FALSE

renderItem(item, p) ==
  IF item.kind = "reading-indicator" THEN [kind |-> "reading-indicator"]
  ELSE IF item.kind = "stream" THEN
    IF p.useNewChatLayout
    THEN [kind |-> "streaming-group", text |-> item.text, startedAt |-> item.startedAt]
    ELSE [kind |-> "message",
          rendered |-> renderMessage([EmptyMsg EXCEPT
                                        !.role = Str("assistant"),
                                        !.content = Arr(<<TextPart(item.text)>>),
                                        !.timestamp = Num(item.startedAt)],
                                     p.isToolOutputExpanded,
                                     p.showReasoning)]
  ELSE IF item.kind = "group" THEN
    [kind |-> "group",
     role |-> normalizeRoleForGrouping(item.role),
     rendered |-> [k \in 1..Len(item.messages) |->
                     renderGroupedMessage(item.messages[k].message, p.showReasoning)]]
  ELSE [kind |-> "message",
        rendered |-> renderMessage(item.message, p.isToolOutputExpanded,
                                   p.showReasoning)]

\* the thread of renderChat over the outcome of buildChatItems, or Thrown
renderThread(built, p) ==
  IF built = Thrown THEN Thrown
  ELSE IF \E k \in 1..Len(built.value) : ItemThrows(built.value[k]) THEN Thrown
  ELSE Returned([k \in 1..Len(built.value) |-> renderItem(built.value[k], p)])

(***************************************************************************)
(* The thread over arrays of arbitrary entries: renderChat builds the      *)
(* items and renders each of them; the user opens and closes tool output.  *)
(***************************************************************************)
MaxThreadHist == 2   \* history entries under SpecThread

\* a record whose fields have the wrong types
WrongTyped == [EmptyMsg EXCEPT !.role = Num(3), !.content = Num(5),
                               !.timestamp = Str("x"), !.id = Num(9)]
\* a content array that holds null
NullPartMsg == [EmptyMsg EXCEPT !.role = Str("user"),
                                !.content = Arr(<<Null, TextPart("hi")>>)]
\* an object with a reference cycle and no text
CyclicMsg == [EmptyMsg EXCEPT !.role = Str("user"), !.cyclic = TRUE]
\* a tool result of the older shape: no identifier, no timestamp
ToolOut == [EmptyMsg EXCEPT !.role = Str("toolResult"), !.content = Str("a")]
\* an assistant turn with a call part and a result part
CallAndResult ==
  [EmptyMsg EXCEPT
     !.role = Str("assistant"),
     !.content = Arr(<<[EmptyPart EXCEPT !.type = Str("toolcall"), !.name = Str("noop"),
                                         !.arguments = Obj("{}")],
                       [EmptyPart EXCEPT !.type = Str("toolresult"), !.name = Str("noop"),
                                         !.text = Str("Hello")]>>),
     !.timestamp = Num(7)]


\* renderChat: the items are built and every item is rendered
ThreadRendered(newProps, event) ==
  /\ props' = newProps
  /\ items' = buildChatItemsOutcome(newProps, now)
  /\ output' = renderThread(buildChatItemsOutcome(newProps, now), newProps)
  /\ lastEvent' = event
  /\ UNCHANGED <<now, input>>

ThreadHistoryAppend(m) ==
  /\ Len(props.messages) < MaxThreadHist
  /\ ThreadRendered([props EXCEPT !.messages = Append(@, m)], "history")

ThreadToolAppend(m) ==
  /\ Len(props.toolMessages) < MaxTools
  /\ ThreadRendered([props EXCEPT !.toolMessages = Append(@, m)], "tool")

ThreadToggleLayout ==
  ThreadRendered([props EXCEPT !.useNewChatLayout = ~@], "layout")

\* the ids of the <details> elements in the thread
DetailIds(thread) ==
  IF thread = Thrown THEN {}
  ELSE UNION {{thread.value[k].rendered.cards[c].id :
                 c \in {d \in 1..Len(thread.value[k].rendered.cards) :
                          thread.value[k].rendered.cards[d].details}} :
              k \in {j \in 1..Len(thread.value) : thread.value[j].kind = "message"}}

\* the user opens or closes the output of a card: onToolOutputToggle(id, open)
ToolOutputToggle(id) ==
  /\ id \in DetailIds(output)
  /\ ThreadRendered([props EXCEPT !.isToolOutputExpanded =
                                     IF id \in @ THEN @ \ {id} ELSE @ \cup {id}],
                    "toggle")

InitThread ==
  /\ \E b \in BOOLEAN : props = [InitProps(<<>>) EXCEPT !.showReasoning = b]
  /\ now = 1
  /\ items = buildChatItemsOutcome(props, now)
  /\ output = renderThread(items, props)
  /\ lastEvent = "init"
  /\ input = <<>>

NextThread ==
  \/ \E m \in {Null, WrongTyped, NullPartMsg, CyclicMsg, ToolOut, CallAndResult} :
       ThreadHistoryAppend(m)
  \/ \E m \in {CyclicMsg, ToolOut} : ThreadToolAppend(m)
  \/ ThreadToggleLayout
  \/ \E id \in DetailIds(output) : ToolOutputToggle(id)

SpecThread == InitThread /\ [][NextThread]_vars

(***************************************************************************)
(* C11: no exception leaves the core for malformed input: building the     *)
(* items and composing each message's display completes normally for       *)
(* arrays of arbitrary entries, in both layouts.  A null entry, a null     *)
(* content part and, in the flat layout, an unserializable message throw.  *)
(***************************************************************************)
C11_NoException == items # Thrown /\ output # Thrown

(***************************************************************************)
(* One message through the functions that compose its display.  The       *)
(* message is drawn from the shapes the gateway and older logs produce;    *)
(* each action applies one function of the view to it.                     *)
(***************************************************************************)
MessageRoles == {"toolResult", "TOOLRESULT", "tool_result", "Tool_Result", "tool",
                 "TOOL", "function", "Function", "user", "User", "assistant", "system"}

ThinkingPart(t) == [EmptyPart EXCEPT !.type = Str("thinking"), !.thinking = Str(t)]

ResultPart(name, t) ==
  [EmptyPart EXCEPT !.type = Str("toolresult"), !.name = Str(name), !.text = Str(t)]

CallPart(name, json) ==
  [EmptyPart EXCEPT !.type = Str("toolcall"), !.name = Str(name), !.arguments = Str(json)]

MessageContents ==
  {Undefined, Str("matches"), Str(" "), Str("<think>x</think>"),
   Arr(<<TextPart("hi")>>),
   Arr(<<ThinkingPart("plan"), TextPart("<think>x</think>ok")>>),
   Arr(<<ThinkingPart(" "), TextPart("<think>x</think>ok")>>),
   Arr(<<ResultPart("grep", "found")>>),
   Arr(<<CallPart("grep", " {\"q\":1} ")>>)}

\* the message shapes: role, content, <<toolCallId, tool_call_id>> and
\* <<toolName, tool_name>>
MessageInputs ==
  {[EmptyMsg EXCEPT !.role = Str(r), !.content = c,
                    !.toolCallId = i[1], !.tool_call_id = i[2],
                    !.toolName = n[1], !.tool_name = n[2]] :
     r \in MessageRoles, c \in MessageContents,
     i \in {<<Undefined, Undefined>>, <<Str("c1"), Undefined>>, <<Undefined, Str("c1")>>},
     n \in {<<Undefined, Undefined>>, <<Str("grep"), Undefined>>,
            <<Undefined, Str("rg")>>, <<Str(""), Str("rg")>>}}

InitMessage ==
  /\ props = InitProps(<<>>)
  /\ now = 1
  /\ items = <<>>
  /\ lastEvent = "init"
  /\ input \in MessageInputs
  /\ output = <<>>

Applied(result, event) ==
  /\ lastEvent = "init"
  /\ output' = result
  /\ lastEvent' = event
  /\ UNCHANGED <<props, now, items, input>>

NextMessage ==
  \/ Applied(extractToolCards(input), "cards")
  \/ Applied(renderMessage(input, {}, TRUE), "flat")
  \/ Applied(renderGroupedMessage(input, TRUE), "grouped")
  \/ Applied(extractThinking(input), "thinking")
  \/ Applied(normalizeRoleForGrouping(input.role.str), "role")

SpecMessage == InitMessage /\ [][NextMessage]_vars

\* the words of the properties about one message
CarriesToolCallId(message) == IsStr(message.toolCallId) \/ IsStr(message.tool_call_id)

ToolResultRole(message) ==
  IsStr(message.role) /\ toLowerCase(message.role.str) \in {"toolresult", "tool_result"}

HasResultPart(message) ==
  /\ IsArr(message.content)
  /\ \E k \in 1..Len(message.content.arr) :
       /\ message.content.arr[k] # Null
       /\ IsStr(message.content.arr[k].type)
       /\ toLowerCase(message.content.arr[k].type.str) \in {"toolresult", "tool_result"}

ResultCardsOf(cards) == SelectSeq(cards, LAMBDA c : c.kind = "result")

(***************************************************************************)
(* C12: extractToolCards returns at least one result card for every        *)
(* tool-result message, be it one by its role (toolResult / tool_result,   *)
(* any case) or by carrying toolCallId or tool_call_id; without an         *)
(* explicit result part exactly one result card is synthesized, named by   *)
(* toolName, else tool_name, else "tool", with the extracted text; with    *)
(* an explicit result part none is synthesized.  The code synthesizes by   *)
(* the role alone, so a message that is a tool result by its identifier    *)
(* gets no card.                                                           *)
(***************************************************************************)
C12_ResultCardForToolResult ==
  (lastEvent = "cards" /\ (ToolResultRole(input) \/ CarriesToolCallId(input))) =>
    IF HasResultPart(input)
    THEN \A k \in 1..Len(ResultCardsOf(output)) :
           ResultCardsOf(output)[k].text = Str("found")
    ELSE /\ Len(ResultCardsOf(output)) = 1
         /\ ResultCardsOf(output)[1].name =
              (IF HasText(input.toolName) THEN input.toolName
               ELSE IF HasText(input.tool_name) THEN input.tool_name
               ELSE Str("tool"))
         /\ ResultCardsOf(output)[1].text = Coalesce(extractText(input), Undefined)

(***************************************************************************)
(* The view over a loaded history at the render limit whose new entries    *)
(* and tool messages include records that are keyed through the            *)
(* positional index (unserializable, without text or identifier).          *)
(***************************************************************************)
MaxIndexTools == 2

NextIndex ==
  \/ \E m \in {CyclicMsg, UserHi} : HistoryAppend(m, CHAT_HISTORY_RENDER_LIMIT + MaxHidden)
  \/ \E m \in {CyclicMsg, ToolOut} : ToolAppend(m, MaxIndexTools)
  \/ ToggleLayout

SpecIndex == InitWindow /\ [][NextIndex]_vars

\* the history and tool entries of an output: its message entries but the notice
KeyedOf(its) == SelectSeq(MessageEntries(its), LAMBDA it : it.key # NoticeKey)

\* the number of history entries in the output built from history h
RenderedCount(h) == Min(Len(h), CHAT_HISTORY_RENDER_LIMIT)

\* the indices given to key derivation for the rendered history and for the tools
HistoryIndices(h) == {historyIndex(h, k) : k \in 1..RenderedCount(h)}
ToolIndices(h, t) == {toolIndex(h, k) : k \in 1..Len(t)}

(***************************************************************************)
(* C13: in every build, truncated or not, the index given to key           *)
(* derivation for a tool message (its position plus the history length)   *)
(* differs from the index of every rendered history entry and of every    *)
(* other tool message; each entry of the output carries the key derived   *)
(* with that index.                                                        *)
(***************************************************************************)
C13_DisjointIndices ==
  LET h == props.messages
      t == props.toolMessages
      keyed == KeyedOf(items)
  IN /\ Len(keyed) = RenderedCount(h) + Len(t)
     /\ \A k \in 1..RenderedCount(h) :
          /\ historyIndex(h, k) = Len(h) - RenderedCount(h) + k - 1
          /\ keyed[k].key = messageKey(h[Len(h) - RenderedCount(h) + k], historyIndex(h, k))
     /\ \A k \in 1..Len(t) :
          keyed[RenderedCount(h) + k].key = messageKey(t[k], toolIndex(h, k))
     /\ HistoryIndices(h) \cap ToolIndices(h, t) = {}
     /\ Cardinality(ToolIndices(h, t)) = Len(t)

\* a truncated build with two tool messages
C13_Witness ==
  /\ Len(props.messages) > CHAT_HISTORY_RENDER_LIMIT
  /\ Len(props.toolMessages) = 2
  /\ Len(KeyedOf(items)) = CHAT_HISTORY_RENDER_LIMIT + 2
  /\ C13_DisjointIndices

(***************************************************************************)
(* C14: the text displayed for a message is the non-blank extracted text,  *)
(* else the non-blank raw string content, else the pretty-printed JSON of  *)
(* the whole message, the JSON only when the message has no tool cards and *)
(* is not a tool-result message; renderMessage and renderGroupedMessage    *)
(* both follow this and so show the same body for the same message.  The   *)
(* grouped renderer has neither fallback, and the flat renderer shows no   *)
(* text at all for a tool-result message.                                  *)
(***************************************************************************)
PrecedenceDisplay(message) ==
  IF NonBlank(extractText(message)) THEN [kind |-> "text", value |-> extractText(message).str]
  ELSE IF NonBlank(message.content) THEN [kind |-> "text", value |-> message.content.str]
  ELSE IF /\ Len(extractToolCards(message)) = 0
          /\ ~(ToolResultRole(message) \/ CarriesToolCallId(message))
    THEN [kind |-> "json", value |-> PrettyJson(message)]
  ELSE Null

C14_DisplayPrecedence ==
  lastEvent \in {"flat", "grouped"} => output.display = PrecedenceDisplay(input)

(***************************************************************************)
(* C15: normalizeRoleForGrouping returns "assistant" for every role that   *)
(* equals toolresult, tool_result, tool or function ignoring case, returns *)
(* every other role unchanged, and applying it to its own result changes   *)
(* nothing.                                                                *)
(***************************************************************************)
C15_RoleForGrouping ==
  lastEvent = "role" =>
    /\ output = (IF toLowerCase(input.role.str)
                      \in {"toolresult", "tool_result", "tool", "function"}
                 THEN "assistant" ELSE input.role.str)
    /\ normalizeRoleForGrouping(output) = output

\* a tool role written in mixed case has been mapped
C15_Witness ==
  /\ lastEvent = "role"
  /\ input.role = Str("Tool_Result")
  /\ output = "assistant"

(***************************************************************************)
(* C16: when the content of a message has at least one part of type        *)
(* "thinking", extractThinking builds its result from those parts only     *)
(* (trimmed, empty ones dropped, joined by newline) and does not scan the  *)
(* raw text for <think> tags; the scan is used only when there is no       *)
(* structured thinking part.  The code scans whenever the structured       *)
(* parts leave nothing, blank thinking parts included.                     *)
(***************************************************************************)
HasThinkingPart(message) ==
  /\ IsArr(message.content)
  /\ \E k \in 1..Len(message.content.arr) :
       /\ message.content.arr[k] # Null
       /\ message.content.arr[k].type = Str("thinking")

C16_StructuredThinkingFirst ==
  lastEvent = "thinking" =>
    IF HasThinkingPart(input)
    THEN output = (IF Len(ThinkingParts(input.content.arr)) > 0
                   THEN Str(Join(ThinkingParts(input.content.arr), "\n"))
                   ELSE Null)
    ELSE output = LegacyScan(extractRawText(input))

(***************************************************************************)
(* C17: a message that carries toolCallId or tool_call_id is normalized    *)
(* to role "toolResult" whatever its role field says, so in grouping mode  *)
(* it is in a group of role "assistant" and joins an assistant run next    *)
(* to it: an assistant message followed by a message of role "user" with   *)
(* a toolCallId forms one group of role "assistant" with 2 messages.       *)
(***************************************************************************)
EntrySize(entry) == IF entry.kind = "group" THEN Len(entry.messages) ELSE 1

RECURSIVE SizeUpTo(_, _)
SizeUpTo(out, k) == IF k = 0 THEN 0 ELSE SizeUpTo(out, k - 1) + EntrySize(out[k])

\* the position in `out` of the entry that holds the pos-th item of the input
EntryOf(out, pos) ==
  CHOOSE k \in 1..Len(out) : SizeUpTo(out, k - 1) < pos /\ pos <= SizeUpTo(out, k)

C17_IdentifierJoinsAssistantRun ==
  lastEvent = "grouped" =>
    /\ \A k \in 1..Len(output) :
         output[k].kind = "group" =>
           \A j \in 1..Len(output[k].messages) :
             CarriesToolCallId(output[k].messages[j].message) =>
               /\ normalizeMessage(output[k].messages[j].message, now).role = "toolResult"
               /\ output[k].role = "assistant"
    /\ \A i \in 1..(Len(input) - 1) :
         (/\ input[i].kind = "message"
          /\ input[i + 1].kind = "message"
          /\ (input[i].message.role = Str("assistant") \/ CarriesToolCallId(input[i].message))
          /\ CarriesToolCallId(input[i + 1].message))
           => EntryOf(output, i) = EntryOf(output, i + 1)
    /\ (input = <<MessageItem(messageKey(AsstOk5, 0), AsstOk5),
                  MessageItem(messageKey(ToolCamel, 0), ToolCamel)>>
        => /\ Len(output) = 1
           /\ output[1].role = "assistant"
           /\ Len(output[1].messages) = 2)

\* an assistant message and a message of role user with a toolCallId, grouped
C17_Witness ==
  /\ lastEvent = "grouped"
  /\ input = <<MessageItem(messageKey(AsstOk5, 0), AsstOk5),
               MessageItem(messageKey(ToolCamel, 0), ToolCamel)>>
  /\ ToolCamel.role = Str("user")
  /\ Len(output) = 1

(***************************************************************************)
(* C18: keys survive history growth: when a build is followed by one whose *)
(* history is the first one's with messages appended, tool messages,       *)
(* session and stream unchanged, every message item that is in both        *)
(* outputs has the same key in both: history entries, also after the       *)
(* window slides past the limit, and tool messages, also those keyed       *)
(* through the positional index.  The index of a tool message is its       *)
(* position plus the history length, so its fallback key changes with      *)
(* every append.                                                           *)
(***************************************************************************)
\* the key the output `its` of a build over history h gives the history entry at
\* position i of h, and the tool message at position k of the tool array
HistoryKeyAt(its, h, i) == KeyedOf(its)[i - (Len(h) - RenderedCount(h))].key
ToolKeyAt(its, h, k) == KeyedOf(its)[RenderedCount(h) + k].key

HistoryGrew ==
  /\ Len(props'.messages) > Len(props.messages)
  /\ SubSeq(props'.messages, 1, Len(props.messages)) = props.messages
  /\ props'.toolMessages = props.toolMessages
  /\ props'.sessionKey = props.sessionKey
  /\ props'.stream = props.stream

C18_KeysSurviveGrowthStep ==
  HistoryGrew =>
    /\ \A i \in 1..Len(props.messages) :
         (/\ i > Len(props.messages) - RenderedCount(props.messages)
          /\ i > Len(props'.messages) - RenderedCount(props'.messages))
           => HistoryKeyAt(items', props'.messages, i) = HistoryKeyAt(items, props.messages, i)
    /\ \A k \in 1..Len(props.toolMessages) :
         ToolKeyAt(items', props'.messages, k) = ToolKeyAt(items, props.messages, k)

C18_KeysSurviveGrowth == [][C18_KeysSurviveGrowthStep]_vars

(***************************************************************************)
(* C19: in the flat layout each tool card gets the id <base>:<index>,      *)
(* base the message's toolCallId, else id, else messageId, else timestamp, *)
(* else "tool-card", index the card's position among the message's cards;  *)
(* the output of a card is shown iff its id is in the expanded set; and    *)
(* two different cards of one rendered sequence have different ids, so     *)
(* toggling one leaves the others as they are.  Two messages without       *)
(* identifier and timestamp both have the base "tool-card", so their cards *)
(* share ids.                                                              *)
(***************************************************************************)
\* the cards of a rendered flat thread, as <<message position, card position>>
FlatCards(thread) ==
  {<<k, c>> \in (1..Len(thread)) \X (1..4) :
     thread[k].kind = "message" /\ c <= Len(thread[k].rendered.cards)}

CardAt(thread, kc) == thread[kc[1]].rendered.cards[kc[2]]

CardIdBase(message) ==
  IF HasText(message.toolCallId) THEN message.toolCallId.str
  ELSE IF HasText(message.id) THEN message.id.str
  ELSE IF HasText(message.messageId) THEN message.messageId.str
  ELSE IF IsNum(message.timestamp) THEN ToString(message.timestamp.num)
  ELSE "tool-card"

C19_ToolCardIds ==
  (items # Thrown /\ output # Thrown /\ ~props.useNewChatLayout) =>
    /\ \A kc \in FlatCards(output.value) :
         /\ CardAt(output.value, kc).id
              = CardIdBase(items.value[kc[1]].message) \o ":" \o ToString(kc[2] - 1)
         /\ CardAt(output.value, kc).details =>
              (CardAt(output.value, kc).output # Null
                 <=> CardAt(output.value, kc).id \in props.isToolOutputExpanded)
    /\ \A kc, ld \in FlatCards(output.value) :
         kc # ld => CardAt(output.value, kc).id # CardAt(output.value, ld).id

=============================================================================
